---- MODULE Spec2Model ----
(***************************************************************************)
(* Model of poly_nlp/tasks/preprocessing/encode_text/encode_text_task.py:  *)
(* EncodeTextTask.run (tokenize, load the pretrained table, map_vocab per  *)
(* partition, merge, TransformedDict, embedding) and the mapping interface *)
(* of TransformedDict on the returned index.                               *)
(***************************************************************************)
EXTENDS Integers, Sequences, FiniteSets, TLC

VARIABLES
    text_input,        \* run argument: record id -> raw text
    pretrained_file,   \* run argument: name of the pretrained file, or NoFile
    dtype,             \* run argument: numpy integer dtype of the shard arrays
    maxlen,            \* run argument: fixed row width
    pc,                \* position of run
    error,             \* exception that left run, "none" while there is none
    tok_parts,         \* tokenizing stage: partition index -> ordered record ids
    tok_state,         \* tokenizing stage: partition index -> "pending" | "done"
    tok_out,           \* tokenizing stage: partition index -> query_output
    tokenized_output,  \* run local: record id -> token sequence
    map_parts,         \* mapping stage: partition index -> ordered record ids
    w_pc,              \* mapping stage: position of each map_vocab worker
    w_index,           \* mapping stage: loop variable index of each worker
    w_err,             \* mapping stage: exception raised in each worker
    query_mapping,     \* map_vocab local of each worker: record id -> <<pos, row>>
    files,             \* shard files on disk, by partition index
    shard_result,      \* value returned by each map_vocab worker
    vocab_mapped_text, \* run local: partition index -> shard result
    combined_query_mapping, \* run local: merged record id -> <<pos, row>>
    inputs,            \* the TransformedDict of the result
    embedding,         \* the embedding matrix of the result
    last               \* outcome of the last operation on the returned index

vars == <<text_input, pretrained_file, dtype, maxlen, pc, error, tok_parts,
          tok_state, tok_out, tokenized_output, map_parts, w_pc, w_index,
          w_err, query_mapping, files, shard_result, vocab_mapped_text,
          combined_query_mapping, inputs, embedding, last>>

----------------------------------------------------------------------------
(* Bounds of the model.                                                    *)

MaxRecords == 2
MaxPartitions == 2
MaxLen == 2

----------------------------------------------------------------------------
(* Input domains.                                                          *)

IdNames == <<"A", "B", "C", "D">>
RecordIds == {IdNames[i] : i \in 1..MaxRecords}
UnknownId == "Z"

\* Python's None for pretrained_file.
NoFile == "None"

EmptyDict == << >>

\* dict.keys() in insertion order; records are inserted in the order of IdNames.
OrderedKeys(S) == SelectSeq(IdNames, LAMBDA x : x \in S)

\* The raw texts of the model and what spaCy's tokenizer returns for them.
Texts == {"cat", "zzz The cat"}

nlp(query) ==
    CASE query = "cat" -> <<"cat">>
      [] query = "zzz The cat" -> <<"zzz", "The", "cat">>

\* str.lower on the tokens of the model.
lower(w) == IF w = "The" THEN "the" ELSE w

----------------------------------------------------------------------------
(* The pretrained table: pd.read_table(...).index, one token per row.      *)

PretrainedFiles == {"glove_small", "glove_nounk", "glove_wide"}

WideIndex ==
    [i \in 1..(2^8 + 4) |->
        IF i = 1 THEN "unk"
        ELSE IF i = 2^7 + 1 THEN "the"
        ELSE IF i = 2^8 THEN "cat"
        ELSE "w" \o ToString(i)]

words_index(file) ==
    CASE file = "glove_small" -> <<"the", "unk", "cat">>
      [] file = "glove_nounk" -> <<"the", "cat">>
      [] file = "glove_wide" -> WideIndex

\* w in words.index
in_index(index, w) == \E i \in 1..Len(index) : index[i] = w

\* words.index.get_loc(w): 0-based row of w; KeyError when w is absent.
get_loc(index, w) == (CHOOSE i \in 1..Len(index) : index[i] = w) - 1

\* The lambda vec of run raises KeyError when neither w nor "unk" is a row.
vec_raises(index, w) == ~in_index(index, w) /\ ~in_index(index, "unk")

vec_ZeroBased(index, w) ==
    IF in_index(index, w) THEN get_loc(index, w)
    ELSE get_loc(index, "unk")

vec(index, w) ==
    IF in_index(index, w) THEN get_loc(index, w) + 1
    ELSE get_loc(index, "unk") + 1

----------------------------------------------------------------------------
(* numpy integer dtypes.                                                   *)

Dtypes == {"int8", "int32"}

DtypeMax(d) == CASE d = "int8" -> 2^7 - 1 [] d = "int32" -> 2147483647
DtypeMin(d) == - DtypeMax(d) - 1

InRange(d, v) == DtypeMin(d) <= v /\ v <= DtypeMax(d)

\* C cast of an out-of-range value to the dtype (two's complement wrap).
Wrap(d, v) ==
    IF InRange(d, v) THEN v
    ELSE ((v - DtypeMin(d)) % (2 * (DtypeMax(d) + 1))) + DtypeMin(d)

----------------------------------------------------------------------------
(* The dispatcher RayExecutor.run(input, fn, kwargs): it splits the input  *)
(* mapping into partitions, runs fn(pos, partition, **kwargs) on each and  *)
(* merges the returned dicts.                                              *)

PartitionIndexes(P) == 0..(P - 1)

\* Every way of splitting the keys of a mapping into P contiguous partitions
\* (some of them possibly empty), as the partition index of each key.
Assignments(keys, P) ==
    LET order == OrderedKeys(keys) IN
    {a \in [keys -> PartitionIndexes(P)] :
        \A i, j \in 1..Len(order) : i < j => a[order[i]] <= a[order[j]]}

\* The records of partition p, in the order of the input mapping.
PartitionOf(a, p) == OrderedKeys({k \in DOMAIN a : a[k] = p})

Range(s) == {s[i] : i \in DOMAIN s}

\* {**x, **y}
DictUpdate(x, y) ==
    [k \in (DOMAIN x) \cup (DOMAIN y) |-> IF k \in DOMAIN y THEN y[k] ELSE x[k]]

\* reduce(lambda x, y: {**x, **y}, results, {}) over the partitions' results.
RECURSIVE MergeResults(_, _)
MergeResults(results, order) ==
    IF order = << >> THEN EmptyDict
    ELSE DictUpdate(MergeResults(results, SubSeq(order, 1, Len(order) - 1)),
                    results[order[Len(order)]])

\* The orders in which the results of the partitions can come back.
Orders(S) == {o \in [1..Cardinality(S) -> S] : Range(o) = S}

AscendingOrder(P) == [i \in 1..P |-> i - 1]

----------------------------------------------------------------------------
(* Shard files and array handles.                                          *)

NoArray == [exists |-> FALSE, rows |-> << >>]

\* np.memmap(..., mode="w+", shape=(n, maxlen)): a fresh zero-filled array.
ZeroArray(n, width) ==
    [exists |-> TRUE, rows |-> [r \in 1..n |-> [i \in 1..width |-> 0]]]

NoShardFiles == [input_ids |-> NoArray, attention_maps |-> NoArray]

\* np.memmap(..., mode="r+") on a file of shard pos.
Handle(pos, name) == [pos |-> pos, file |-> name, mode |-> "r+"]

\* v[row] for a handle v: the row of the file the handle maps.
ReadRow(fs, h, row) == fs[h.pos][h.file].rows[row + 1]

----------------------------------------------------------------------------
(* The state after construction: run has been called with its arguments.   *)

NoOperation == [op |-> "none", key |-> "", raised |-> "none", value |-> << >>]

RecordSets == UNION {[S -> Texts] : S \in SUBSET RecordIds}

Init ==
    /\ text_input \in RecordSets
    /\ pretrained_file \in PretrainedFiles \cup {NoFile}
    /\ dtype \in Dtypes
    /\ maxlen = MaxLen
    /\ pc = "start"
    /\ error = "none"
    /\ tok_parts = EmptyDict
    /\ tok_state = EmptyDict
    /\ tok_out = EmptyDict
    /\ tokenized_output = EmptyDict
    /\ map_parts = EmptyDict
    /\ w_pc = EmptyDict
    /\ w_index = EmptyDict
    /\ w_err = EmptyDict
    /\ query_mapping = EmptyDict
    /\ files = [p \in PartitionIndexes(MaxPartitions) |-> NoShardFiles]
    /\ shard_result = EmptyDict
    /\ vocab_mapped_text = EmptyDict
    /\ combined_query_mapping = EmptyDict
    /\ inputs = EmptyDict
    /\ embedding = << >>
    /\ last = NoOperation

----------------------------------------------------------------------------
(* Tokenizing stage, run lines 124-126.                                    *)

run_vars == <<text_input, pretrained_file, dtype, maxlen>>
tok_vars == <<tok_parts, tok_state, tok_out>>
map_vars == <<map_parts, w_pc, w_index, w_err, query_mapping, shard_result>>
res_vars == <<vocab_mapped_text, combined_query_mapping, inputs, embedding,
              last>>

\* ray_executor.run(text_input, self.tokenize, {}) hands out the partitions.
RunTokenizeDispatch ==
    /\ pc = "start"
    /\ \E P \in 1..MaxPartitions : \E a \in Assignments(DOMAIN text_input, P) :
         /\ tok_parts' = [p \in PartitionIndexes(P) |-> PartitionOf(a, p)]
         /\ tok_state' = [p \in PartitionIndexes(P) |-> "pending"]
         /\ tok_out' = [p \in PartitionIndexes(P) |-> EmptyDict]
    /\ pc' = "tokenizing"
    /\ UNCHANGED <<run_vars, error, tokenized_output, map_vars, files, res_vars>>

\* EncodeTextTask.tokenize(pos, input) on one partition.
tokenize(pos) ==
    /\ pc = "tokenizing"
    /\ tok_state[pos] = "pending"
    /\ tok_out' = [tok_out EXCEPT ![pos] =
                     [id \in Range(tok_parts[pos]) |-> nlp(text_input[id])]]
    /\ tok_state' = [tok_state EXCEPT ![pos] = "done"]
    /\ UNCHANGED <<run_vars, pc, error, tok_parts, tokenized_output, map_vars,
                   files, res_vars>>

\* ray_executor.run returns once every partition is tokenized.
RunTokenizeFanIn ==
    /\ pc = "tokenizing"
    /\ \A p \in DOMAIN tok_state : tok_state[p] = "done"
    /\ tokenized_output' =
         MergeResults(tok_out, AscendingOrder(Cardinality(DOMAIN tok_out)))
    /\ tok_parts' = EmptyDict
    /\ tok_state' = EmptyDict
    /\ tok_out' = EmptyDict
    /\ pc' = "loading"
    /\ UNCHANGED <<run_vars, error, map_vars, files, res_vars>>

\* Lines 128-145: read the pretrained table and build vec, or raise.
RunLoadPretrained ==
    /\ pc = "loading"
    /\ IF pretrained_file # NoFile
       THEN pc' = "loaded" /\ error' = error
       ELSE pc' = "failed" /\ error' = "NotImplementedError"
    /\ UNCHANGED <<run_vars, tok_vars, tokenized_output, map_vars, files,
                   res_vars>>

----------------------------------------------------------------------------
(* VocabMapping stage: run lines 147-158 and map_vocab, lines 64-109.      *)

\* ray_executor.run(tokenized_output, self.map_vocab, dict(...)) hands out
\* the partitions of the tokenized records.
RunMapDispatch ==
    /\ pc = "loaded"
    /\ \E P \in 1..MaxPartitions :
       \E a \in Assignments(DOMAIN tokenized_output, P) :
         /\ map_parts' = [p \in PartitionIndexes(P) |-> PartitionOf(a, p)]
         /\ w_pc' = [p \in PartitionIndexes(P) |-> "pending"]
         /\ w_index' = [p \in PartitionIndexes(P) |-> 0]
         /\ w_err' = [p \in PartitionIndexes(P) |-> "none"]
         /\ query_mapping' = [p \in PartitionIndexes(P) |-> EmptyDict]
         /\ shard_result' = [p \in PartitionIndexes(P) |-> EmptyDict]
    /\ pc' = "mapping"
    /\ UNCHANGED <<run_vars, error, tok_vars, tokenized_output, files, res_vars>>

\* Line 84: query_mapping[id] = (pos, index)
RecordRow_Reassigned(qm, id, pos, index) == (id :> <<pos, index>>)

RecordRow(qm, id, pos, index) == DictUpdate(qm, (id :> <<pos, index>>))

\* Lines 85-88: the ids of one row; position i of the model is index i - 1.
RowIds(index, query, width) ==
    [i \in 1..width |->
        IF i - 1 < Len(query) THEN vec(index, lower(query[i])) ELSE 0]

\* vec raises KeyError for one of the tokens the row reads.
RowRaises(index, query, width) ==
    \E i \in 1..width : i - 1 < Len(query) /\ vec_raises(index, lower(query[i]))

\* Lines 89-91: the attention mask of one row.
RowMask(query, width) ==
    [i \in 1..width |-> IF i - 1 < Len(query) THEN 1 ELSE 0]

\* Some id of the row is not representable in the dtype of the array.
RowOverflows(d, row) == \E i \in DOMAIN row : ~InRange(d, row[i])

\* The row as the array stores it when numpy casts instead of raising.
RowCast(d, row) == [i \in DOMAIN row |-> Wrap(d, row[i])]

\* The row the array holds when numpy raises OverflowError: the assignment
\* of line 85 stores the list element by element, so the ids in front of the
\* first one the dtype cannot hold are already in the row.
RowBeforeOverflow(d, old, row) ==
    [i \in DOMAIN row |->
        IF \A j \in 1..i : InRange(d, row[j]) THEN row[i] ELSE old[i]]

SetRow(array, k, row) == [array EXCEPT !.rows[k + 1] = row]

map_vocab_open_SharedPath(pos) ==
    /\ pc \in {"mapping", "failed"}
    /\ w_pc[pos] = "pending"
    /\ LET n == Len(map_parts[pos]) IN
       \/ /\ files' = [files EXCEPT ![0] =
                         [input_ids |-> ZeroArray(n, maxlen),
                          attention_maps |-> ZeroArray(n, maxlen)]]
          /\ w_pc' = [w_pc EXCEPT ![pos] = "loop"]
          /\ w_err' = w_err
       \/ /\ n = 0
          /\ files' = [files EXCEPT ![0].input_ids = ZeroArray(0, maxlen)]
          /\ w_pc' = [w_pc EXCEPT ![pos] = "failed"]
          /\ w_err' = [w_err EXCEPT ![pos] = "ValueError"]
    /\ UNCHANGED <<run_vars, pc, error, tok_vars, tokenized_output, map_parts,
                   w_index, query_mapping, shard_result, res_vars>>

\* Lines 65-77: create the two arrays of the shard with mode "w+". For a
\* zero-row shape np.memmap opens (creates) the first file and then either
\* raises ValueError (mmap of an empty file) or returns an empty array,
\* depending on the numpy version.
map_vocab_open(pos) ==
    /\ pc \in {"mapping", "failed"}
    /\ w_pc[pos] = "pending"
    /\ LET n == Len(map_parts[pos]) IN
       \/ /\ files' = [files EXCEPT ![pos] =
                         [input_ids |-> ZeroArray(n, maxlen),
                          attention_maps |-> ZeroArray(n, maxlen)]]
          /\ w_pc' = [w_pc EXCEPT ![pos] = "loop"]
          /\ w_err' = w_err
       \/ /\ n = 0
          /\ files' = [files EXCEPT ![pos].input_ids = ZeroArray(0, maxlen)]
          /\ w_pc' = [w_pc EXCEPT ![pos] = "failed"]
          /\ w_err' = [w_err EXCEPT ![pos] = "ValueError"]
    /\ UNCHANGED <<run_vars, pc, error, tok_vars, tokenized_output, map_parts,
                   w_index, query_mapping, shard_result, res_vars>>

\* Lines 79-91: one iteration of the loop over the records of the shard.
map_vocab_row(pos) ==
    /\ pc \in {"mapping", "failed"}
    /\ w_pc[pos] = "loop"
    /\ w_index[pos] < Len(map_parts[pos])
    /\ LET index == w_index[pos]
           id == map_parts[pos][index + 1]
           query == tokenized_output[id]
           table == words_index(pretrained_file)
           ids == RowIds(table, query, maxlen)
           stored == [files[pos] EXCEPT
                        !.input_ids = SetRow(@, index, RowCast(dtype, ids)),
                        !.attention_maps =
                            SetRow(@, index, RowMask(query, maxlen))]
       IN
       /\ query_mapping' = [query_mapping EXCEPT ![pos] =
                              RecordRow(@, id, pos, index)]
       /\ \/ /\ RowRaises(table, query, maxlen)
             /\ w_pc' = [w_pc EXCEPT ![pos] = "failed"]
             /\ w_err' = [w_err EXCEPT ![pos] = "KeyError"]
             /\ UNCHANGED <<files, w_index>>
          \/ /\ ~RowRaises(table, query, maxlen)
             /\ RowOverflows(dtype, ids)
             /\ files' = [files EXCEPT ![pos].input_ids =
                             SetRow(@, index,
                                    RowBeforeOverflow(dtype,
                                                      @.rows[index + 1], ids))]
             /\ w_pc' = [w_pc EXCEPT ![pos] = "failed"]
             /\ w_err' = [w_err EXCEPT ![pos] = "OverflowError"]
             /\ UNCHANGED w_index
          \/ /\ ~RowRaises(table, query, maxlen)
             /\ files' = [files EXCEPT ![pos] = stored]
             /\ w_index' = [w_index EXCEPT ![pos] = index + 1]
             /\ UNCHANGED <<w_pc, w_err>>
    /\ UNCHANGED <<run_vars, pc, error, tok_vars, tokenized_output, map_parts,
                   shard_result, res_vars>>

\* Lines 93-109: reopen both files with mode "r+" and return the shard.
map_vocab_return(pos) ==
    /\ pc \in {"mapping", "failed"}
    /\ w_pc[pos] = "loop"
    /\ w_index[pos] = Len(map_parts[pos])
    /\ shard_result' = [shard_result EXCEPT ![pos] =
                          [input_ids |-> Handle(pos, "input_ids"),
                           attention_masks |-> Handle(pos, "attention_maps"),
                           query_mapping |-> query_mapping[pos]]]
    /\ w_pc' = [w_pc EXCEPT ![pos] = "done"]
    /\ UNCHANGED <<run_vars, pc, error, tok_vars, tokenized_output, map_parts,
                   w_index, w_err, query_mapping, files, res_vars>>

RunMapFanIn_FirstCompleted ==
    /\ pc = "mapping"
    /\ \E p \in DOMAIN w_pc : w_pc[p] = "done"
    /\ vocab_mapped_text' =
         [p \in {q \in DOMAIN w_pc : w_pc[q] = "done"} |-> shard_result[p]]
    /\ map_parts' = EmptyDict
    /\ w_pc' = EmptyDict
    /\ w_index' = EmptyDict
    /\ w_err' = EmptyDict
    /\ query_mapping' = EmptyDict
    /\ shard_result' = EmptyDict
    /\ pc' = "merging"
    /\ UNCHANGED <<run_vars, error, tok_vars, tokenized_output, files,
                   combined_query_mapping, inputs, embedding, last>>

\* ray_executor.run returns {pos: shard} once every partition is encoded.
RunMapFanIn ==
    /\ pc = "mapping"
    /\ \A p \in DOMAIN w_pc : w_pc[p] = "done"
    /\ vocab_mapped_text' = shard_result
    /\ map_parts' = EmptyDict
    /\ w_pc' = EmptyDict
    /\ w_index' = EmptyDict
    /\ w_err' = EmptyDict
    /\ query_mapping' = EmptyDict
    /\ shard_result' = EmptyDict
    /\ pc' = "merging"
    /\ UNCHANGED <<run_vars, error, tok_vars, tokenized_output, files,
                   combined_query_mapping, inputs, embedding, last>>

RunMapFail_Swallowed ==
    /\ pc = "mapping"
    /\ \E p \in DOMAIN w_pc : w_pc[p] = "failed"
    /\ vocab_mapped_text' =
         [p \in {q \in DOMAIN w_pc : w_pc[q] = "done"} |-> shard_result[p]]
    /\ pc' = "merging"
    /\ UNCHANGED <<run_vars, error, tok_vars, tokenized_output, map_vars, files,
                   combined_query_mapping, inputs, embedding, last>>

\* The exception of a worker leaves ray_executor.run and then run: neither
\* catches it.
RunMapFail ==
    /\ pc = "mapping"
    /\ \E p \in DOMAIN w_pc :
         /\ w_pc[p] = "failed"
         /\ error' = w_err[p]
    /\ pc' = "failed"
    /\ UNCHANGED <<run_vars, tok_vars, tokenized_output, map_vars, files,
                   res_vars>>

----------------------------------------------------------------------------
(* Merging and the result: run lines 159-178.                              *)

\* reduce(lambda x, y: {**x, **y["query_mapping"]}, values, {}): the values
\* are folded from the left in the iteration order of vocab_mapped_text.
RECURSIVE ReduceQueryMappings(_, _)
ReduceQueryMappings(results, order) ==
    IF order = << >> THEN EmptyDict
    ELSE DictUpdate(
            ReduceQueryMappings(results, SubSeq(order, 1, Len(order) - 1)),
            results[order[Len(order)]].query_mapping)

\* vocab_mapped_text.values() yields the shards in the order in which the
\* dispatcher inserted them.
RunMerge ==
    /\ pc = "merging"
    /\ \E order \in Orders(DOMAIN vocab_mapped_text) :
         combined_query_mapping' =
             ReduceQueryMappings(vocab_mapped_text, order)
    /\ pc' = "building"
    /\ UNCHANGED <<run_vars, error, tok_vars, tokenized_output, map_vars, files,
                   vocab_mapped_text, inputs, embedding, last>>

\* {k: v for k, v in val.items() if not k == "query_mapping"}
ShardFields(val) ==
    [k \in (DOMAIN val) \ {"query_mapping"} |-> val[k]]

TransformedDictInit_Renumbered(combined_query, results) ==
    [combined_query |-> combined_query,
     real_store |-> [key \in {k + 1 : k \in DOMAIN results} |->
                        ShardFields(results[key - 1])],
     store |-> [id \in DOMAIN combined_query |-> combined_query[id]]]

\* TransformedDict.__init__(combined_query, [(key, fields), ...]): update()
\* stores every item of combined_query through __setitem__.
TransformedDictInit(combined_query, results) ==
    [combined_query |-> combined_query,
     real_store |-> [key \in DOMAIN results |-> ShardFields(results[key])],
     store |-> [id \in DOMAIN combined_query |-> combined_query[id]]]

RunBuildIndex ==
    /\ pc = "building"
    /\ inputs' = TransformedDictInit(combined_query_mapping, vocab_mapped_text)
    /\ pc' = "embedding"
    /\ UNCHANGED <<run_vars, error, tok_vars, tokenized_output, map_vars, files,
                   vocab_mapped_text, combined_query_mapping,
                   embedding, last>>

\* words.to_numpy(): the vector of each row of the pretrained table.
words_vectors(file) == [i \in 1..Len(words_index(file)) |-> <<i>>]

zeros_like(v) == [i \in DOMAIN v |-> 0]

\* np.vstack((np.zeros_like(glove_vectors[0]), glove_vectors)), then return.
RunEmbedding ==
    /\ pc = "embedding"
    /\ LET glove_vectors == words_vectors(pretrained_file) IN
       embedding' = <<zeros_like(glove_vectors[1])>> \o glove_vectors
    /\ pc' = "done"
    /\ UNCHANGED <<run_vars, error, tok_vars, tokenized_output, map_vars, files,
                   vocab_mapped_text, combined_query_mapping,
                   inputs, last>>

----------------------------------------------------------------------------
(* The mapping interface of the returned TransformedDict, lines 28-51.     *)

\* The keys and the value a caller of the mapping interface passes.
OpKeys == RecordIds \cup {UnknownId}
MutatedKeys == {IdNames[1], UnknownId}
NewValue == <<-1, -1>>

\* self.combined_query[id] and self.real_store[key] raise KeyError on a miss.
getitem_raises(self, key) ==
    \/ key \notin DOMAIN self.combined_query
    \/ self.combined_query[key][1] \notin DOMAIN self.real_store

\* __getitem__: {k: v[pos] for k, v in real_store[shard].items()}
getitem(self, fs, key) ==
    LET shard == self.combined_query[key][1]
        pos == self.combined_query[key][2]
    IN [k \in DOMAIN self.real_store[shard] |->
           ReadRow(fs, self.real_store[shard][k], pos)]

op_frame == <<run_vars, pc, error, tok_vars, tokenized_output, map_vars, files,
              vocab_mapped_text, combined_query_mapping,
              embedding>>

\* What self[key] gives its caller: the fields, or the KeyError.
getitem_outcome(self, fs, key) ==
    IF getitem_raises(self, key)
    THEN [op |-> "__getitem__", key |-> key, raised |-> "KeyError",
          value |-> << >>]
    ELSE [op |-> "__getitem__", key |-> key, raised |-> "none",
          value |-> getitem(self, fs, key)]

GetItem(key) ==
    /\ pc = "done"
    /\ last' = getitem_outcome(inputs, files, key)
    /\ UNCHANGED <<op_frame, inputs>>

\* Python's None, as a value that can be compared with the fields of a record.
None == <<"None">>

\* The get(key, default=None) TransformedDict inherits from Mapping through
\* MutableMapping (line 16): it returns self[key] and, when __getitem__
\* raises KeyError, the default.
get_outcome(self, fs, key) ==
    [op |-> "get", key |-> key, raised |-> "none",
     value |-> IF getitem_raises(self, key) THEN None
               ELSE getitem(self, fs, key)]

Get(key) ==
    /\ pc = "done"
    /\ last' = get_outcome(inputs, files, key)
    /\ UNCHANGED <<op_frame, inputs>>

\* __setitem__: self.store[key] = value
SetItem(key, value) ==
    /\ pc = "done"
    /\ inputs' = [inputs EXCEPT !.store = DictUpdate(@, (key :> value))]
    /\ last' = [op |-> "__setitem__", key |-> key, raised |-> "none",
                value |-> << >>]
    /\ UNCHANGED op_frame

\* __delitem__: del self.store[key]
DelItem(key) ==
    /\ pc = "done"
    /\ IF key \in DOMAIN inputs.store
       THEN /\ inputs' = [inputs EXCEPT !.store =
                            [k \in (DOMAIN @) \ {key} |-> @[k]]]
            /\ last' = [op |-> "__delitem__", key |-> key, raised |-> "none",
                        value |-> << >>]
       ELSE /\ inputs' = inputs
            /\ last' = [op |-> "__delitem__", key |-> key,
                        raised |-> "KeyError", value |-> << >>]
    /\ UNCHANGED op_frame

\* __iter__: iter(self.store), here the set of keys it yields
Iter ==
    /\ pc = "done"
    /\ last' = [op |-> "__iter__", key |-> "", raised |-> "none",
                value |-> DOMAIN inputs.store]
    /\ UNCHANGED <<op_frame, inputs>>

\* __len__: len(self.store)
Length ==
    /\ pc = "done"
    /\ last' = [op |-> "__len__", key |-> "", raised |-> "none",
                value |-> Cardinality(DOMAIN inputs.store)]
    /\ UNCHANGED <<op_frame, inputs>>

----------------------------------------------------------------------------

Next ==
    \/ RunTokenizeDispatch
    \/ \E pos \in DOMAIN tok_state : tokenize(pos)
    \/ RunTokenizeFanIn
    \/ RunLoadPretrained
    \/ RunMapDispatch
    \/ \E pos \in DOMAIN w_pc : map_vocab_open(pos)
    \/ \E pos \in DOMAIN w_pc : map_vocab_row(pos)
    \/ \E pos \in DOMAIN w_pc : map_vocab_return(pos)
    \/ RunMapFanIn
    \/ RunMapFail
    \/ RunMerge
    \/ RunBuildIndex
    \/ RunEmbedding
    \/ \E key \in OpKeys : GetItem(key)
    \/ \E key \in OpKeys : Get(key)
    \/ \E key \in MutatedKeys : SetItem(key, NewValue)
    \/ \E key \in MutatedKeys : DelItem(key)
    \/ Iter
    \/ Length

Spec == Init /\ [][Next]_vars

----------------------------------------------------------------------------
(* Merging applied to arbitrary shard results: run from line 159 on, with  *)
(* vocab_mapped_text drawn from the shards map_vocab can return for any    *)
(* two inputs, overlapping ones included.                                  *)

\* The arrays a completed map_vocab(pos, input, ...) leaves on disk.
map_vocab_files(part, tokenized, table, d, width) ==
    [input_ids |->
        [exists |-> TRUE,
         rows |-> [r \in 1..Len(part) |->
                     RowCast(d, RowIds(table, tokenized[part[r]], width))]],
     attention_maps |->
        [exists |-> TRUE,
         rows |-> [r \in 1..Len(part) |-> RowMask(tokenized[part[r]], width)]]]

\* The query_mapping a completed map_vocab(pos, input, ...) returns.
map_vocab_mapping(pos, part) ==
    [id \in Range(part) |->
        <<pos, (CHOOSE r \in 1..Len(part) : part[r] = id) - 1>>]

\* The ordered inputs of one shard: sequences of distinct record ids.
ShardInputs ==
    {part \in UNION {[1..n -> RecordIds] : n \in 0..MaxRecords} :
        \A i, j \in DOMAIN part : i # j => part[i] # part[j]}

InitMerge ==
    /\ text_input \in [RecordIds -> Texts]
    /\ pretrained_file = "glove_small"
    /\ dtype = "int32"
    /\ maxlen = MaxLen
    /\ pc = "merging"
    /\ error = "none"
    /\ tok_parts = EmptyDict
    /\ tok_state = EmptyDict
    /\ tok_out = EmptyDict
    /\ tokenized_output = [id \in DOMAIN text_input |-> nlp(text_input[id])]
    /\ map_parts = EmptyDict
    /\ w_pc = EmptyDict
    /\ w_index = EmptyDict
    /\ w_err = EmptyDict
    /\ query_mapping = EmptyDict
    /\ shard_result = EmptyDict
    /\ \E parts \in [PartitionIndexes(MaxPartitions) -> ShardInputs] :
         /\ files = [p \in DOMAIN parts |->
                       map_vocab_files(parts[p], tokenized_output,
                                       words_index(pretrained_file), dtype,
                                       maxlen)]
         /\ vocab_mapped_text =
               [p \in DOMAIN parts |->
                   [input_ids |-> Handle(p, "input_ids"),
                    attention_masks |-> Handle(p, "attention_maps"),
                    query_mapping |-> map_vocab_mapping(p, parts[p])]]
    /\ combined_query_mapping = EmptyDict
    /\ inputs = EmptyDict
    /\ embedding = << >>
    /\ last = NoOperation

NextMerge ==
    \/ RunMerge
    \/ RunBuildIndex
    \/ RunEmbedding
    \/ \E key \in OpKeys : GetItem(key)
    \/ \E key \in OpKeys : Get(key)
    \/ \E key \in MutatedKeys : SetItem(key, NewValue)
    \/ \E key \in MutatedKeys : DelItem(key)
    \/ Iter
    \/ Length

SpecMerge == InitMerge /\ [][NextMerge]_vars

----------------------------------------------------------------------------
(* Properties.                                                             *)

\* The resolver of the specification: the id of a token, after the
\* normalisation (lowercasing) the encoder applies at line 86.
resolve(token) == vec(words_index(pretrained_file), lower(token))

Min(a, b) == IF a < b THEN a ELSE b

\* The row content policy of the specification for one token sequence.
PolicyIds(tokens) ==
    [i \in 1..maxlen |->
        IF i <= Min(Len(tokens), maxlen) THEN resolve(tokens[i]) ELSE 0]

PolicyMask(tokens) ==
    [i \in 1..maxlen |-> IF i <= Min(Len(tokens), maxlen) THEN 1 ELSE 0]

\* The local maps of the shards whose map_vocab call has returned.
ReturnedMaps ==
    LET live == {q \in DOMAIN w_pc : w_pc[q] = "done"} IN
    [p \in live \cup DOMAIN vocab_mapped_text |->
        IF p \in live THEN shard_result[p].query_mapping
        ELSE vocab_mapped_text[p].query_mapping]

AfterVocabMapping == {"merging", "building", "embedding", "done"}
AfterMerge == {"building", "embedding", "done"}

\* C1: in every shard map_vocab has encoded, the row of every record holds at
\* each position i < min(len(tokens), maxlen) the resolver's id of tokens[i]
\* with mask 1, and at each position i >= len(tokens) id 0 with mask 0; rows
\* are maxlen wide, so tokens from position maxlen on are dropped.
C1_RowContentPolicy ==
    \A p \in DOMAIN ReturnedMaps : \A id \in DOMAIN ReturnedMaps[p] :
        LET row == ReturnedMaps[p][id][2]
            tokens == tokenized_output[id]
            ids == files[p].input_ids.rows[row + 1]
            mask == files[p].attention_maps.rows[row + 1]
        IN /\ Len(ids) = maxlen
           /\ Len(mask) = maxlen
           /\ \A i \in 0..(maxlen - 1) :
                /\ i < Min(Len(tokens), maxlen) =>
                      ids[i + 1] = resolve(tokens[i + 1]) /\ mask[i + 1] = 1
                /\ i >= Len(tokens) => ids[i + 1] = 0 /\ mask[i + 1] = 0

\* C2: after a completed run, a lookup of any input record id resolves to the
\* (shard, row) of the shard that encoded the record and returns exactly the
\* fields input_ids and attention_masks, each maxlen long and equal to the
\* encoding of the record's own tokens.
C2_LookupReturnsOwnEncoding ==
    (pc = "done" /\ last.op = "__getitem__" /\ last.key \in DOMAIN text_input) =>
        /\ last.raised = "none"
        /\ \E p \in DOMAIN vocab_mapped_text :
             /\ last.key \in DOMAIN vocab_mapped_text[p].query_mapping
             /\ inputs.combined_query[last.key] =
                    vocab_mapped_text[p].query_mapping[last.key]
             /\ inputs.combined_query[last.key][1] = p
        /\ DOMAIN last.value = {"input_ids", "attention_masks"}
        /\ Len(last.value.input_ids) = maxlen
        /\ Len(last.value.attention_masks) = maxlen
        /\ last.value.input_ids = PolicyIds(tokenized_output[last.key])
        /\ last.value.attention_masks = PolicyMask(tokenized_output[last.key])

\* C3: after the VocabMapping stage the local maps of the shards are pairwise
\* disjoint and their keys together are the input record ids; the merged
\* index has exactly the entry of the owning shard for every input record.
C3_PartitionProperty ==
    (pc \in AfterVocabMapping) =>
        /\ UNION {DOMAIN vocab_mapped_text[p].query_mapping :
                     p \in DOMAIN vocab_mapped_text} = DOMAIN text_input
        /\ \A p, q \in DOMAIN vocab_mapped_text :
             p # q => (DOMAIN vocab_mapped_text[p].query_mapping)
                          \cap (DOMAIN vocab_mapped_text[q].query_mapping) = {}
        /\ (pc \in AfterMerge) =>
             /\ DOMAIN combined_query_mapping = DOMAIN text_input
             /\ \A id \in DOMAIN combined_query_mapping :
                  \E p \in DOMAIN vocab_mapped_text :
                     /\ id \in DOMAIN vocab_mapped_text[p].query_mapping
                     /\ combined_query_mapping[id] =
                            vocab_mapped_text[p].query_mapping[id]

\* Two non-empty shards have been merged.
C3_Witness ==
    /\ pc \in AfterMerge
    /\ Cardinality({p \in DOMAIN vocab_mapped_text :
                       DOMAIN vocab_mapped_text[p].query_mapping # {}}) > 1

\* Two shard results claim the same record id.
DuplicateRecord ==
    \E p, q \in DOMAIN vocab_mapped_text :
        /\ p # q
        /\ (DOMAIN vocab_mapped_text[p].query_mapping)
              \cap (DOMAIN vocab_mapped_text[q].query_mapping) # {}

\* C4: when two shard results hold the same record id, the merge fails: run
\* never gets past the merge and no index is built or returned.
C4_DuplicateFailsMerge ==
    DuplicateRecord => (pc \notin AfterMerge /\ inputs = EmptyDict)

\* What the mapping interface shows of the index.
IndexView ==
    [keys |-> DOMAIN inputs.store,
     len |-> Cardinality(DOMAIN inputs.store),
     fields |-> [id \in DOMAIN inputs.combined_query |->
                    getitem_outcome(inputs, files, id)]]

\* C5: once built, the index is immutable: no operation of its mapping
\* interface changes its key set, its length or the fields of a record id
\* (stated for an index that holds at least one record).
C5_IndexImmutable ==
    [][(pc = "done" /\ pc' = "done" /\ DOMAIN inputs.combined_query # {}) =>
          IndexView' = IndexView]_vars

\* C6: a lookup (idx[id] or idx.get(id)) of a record id no shard produced,
\* on an index that holds records, fails with KeyError (the UnknownRecord
\* error), returns no value, no default either, and leaves the index
\* unchanged.
C6_UnknownRecordFails ==
    [][\A key \in OpKeys \ DOMAIN text_input :
          ((GetItem(key) \/ Get(key))
              /\ DOMAIN inputs.combined_query # {}) =>
              /\ last'.raised = "KeyError"
              /\ last'.value = << >>
              /\ inputs' = inputs
              /\ files' = files]_vars

ShardFileExists ==
    \E p \in DOMAIN files :
        files[p].input_ids.exists \/ files[p].attention_maps.exists

\* C7: without a pretrained source run fails before any stage does work: the
\* Tokenizing stage is never dispatched and no shard file is created.
C7_FailsBeforeTokenizing ==
    (pretrained_file = NoFile) =>
        /\ pc \in {"start", "failed"}
        /\ tok_state = EmptyDict
        /\ tokenized_output = EmptyDict
        /\ ~ShardFileExists

\* C8: when the table has no "unk" row the failure occurs when the resolver
\* is built: VocabMapping is never dispatched, no shard array is written and
\* no worker fails on resolving a token.
C8_MissingSentinelFailsAtConstruction ==
    (pretrained_file # NoFile
        /\ ~in_index(words_index(pretrained_file), "unk")) =>
        /\ pc \notin {"mapping"} \cup AfterVocabMapping
        /\ w_pc = EmptyDict
        /\ ~ShardFileExists

\* An id of the vocabulary is stored as another number.
StoredWrapped ==
    \E p \in DOMAIN files : \E r \in DOMAIN files[p].input_ids.rows :
        \E i \in DOMAIN files[p].input_ids.rows[r] :
            files[p].input_ids.rows[r][i] \notin
                0..Len(words_index(pretrained_file))

\* C9: when the vocabulary is larger than the dtype's maximum, run fails
\* before any shard file is created and no id is stored wrapped.
C9_NarrowDtypeFailsBeforeShards ==
    (pretrained_file # NoFile
        /\ Len(words_index(pretrained_file)) > DtypeMax(dtype)) =>
        /\ ~ShardFileExists
        /\ ~StoredWrapped
        /\ pc \notin AfterVocabMapping

StageOf(p) ==
    CASE p = "start" -> "NotStarted"
      [] p \in {"tokenizing", "loading", "loaded"} -> "Tokenizing"
      [] p = "mapping" -> "VocabMapping"
      [] p \in {"merging", "building"} -> "Merging"
      [] p = "embedding" -> "EmbeddingAssembly"
      [] p = "done" -> "Done"
      [] p = "failed" -> "Failed"

StageRank(st) ==
    CASE st = "NotStarted" -> 0
      [] st = "Tokenizing" -> 1
      [] st = "VocabMapping" -> 2
      [] st = "Merging" -> 3
      [] st = "EmbeddingAssembly" -> 4
      [] st = "Done" -> 5

\* C10: run passes through Tokenizing, VocabMapping, Merging,
\* EmbeddingAssembly, Done in this order, one stage at a time and never
\* backwards; a stage is left only when all its partitions have completed;
\* a failure halts run for good, and so does Done.
C10_StageOrder ==
    [][/\ pc = "failed" => pc' = "failed"
       /\ pc = "done" => pc' = "done"
       /\ pc' # "failed" =>
            \/ StageRank(StageOf(pc')) = StageRank(StageOf(pc))
            \/ StageRank(StageOf(pc')) = StageRank(StageOf(pc)) + 1
       /\ (pc = "tokenizing" /\ pc' # "tokenizing") =>
            /\ \A p \in DOMAIN tok_state : tok_state[p] = "done"
            /\ DOMAIN tokenized_output' = DOMAIN text_input
       /\ (pc = "mapping" /\ pc' # "mapping") =>
            \/ pc' = "failed"
            \/ /\ pc' = "merging"
               /\ \A p \in DOMAIN w_pc : w_pc[p] = "done"
               /\ DOMAIN vocab_mapped_text' = DOMAIN w_pc]_vars

\* A run has gone through every stage with two partitions.
C10_Witness ==
    /\ pc = "done"
    /\ error = "none"
    /\ Cardinality(DOMAIN vocab_mapped_text) > 1

\* A map_vocab worker has raised.
PartitionFailed == \E p \in DOMAIN w_pc : w_pc[p] = "failed"

\* The shard p is complete on disk: both arrays exist and hold one row for
\* each record of the shard's local map.
ShardComplete(p) ==
    LET n == Cardinality(DOMAIN vocab_mapped_text[p].query_mapping) IN
    /\ files[p].input_ids.exists
    /\ files[p].attention_maps.exists
    /\ Len(files[p].input_ids.rows) = n
    /\ Len(files[p].attention_maps.rows) = n

\* C11: when the encoding of a partition fails, run never merges and never
\* returns a result; whenever an index exists, no partition has failed, the
\* shards 0..P-1 of all partitions are in its shard store, each complete on
\* disk, and every input record is located in one of them.
C11_FailedPartitionNeverMerges ==
    /\ PartitionFailed =>
          /\ pc \in {"mapping", "failed"}
          /\ vocab_mapped_text = EmptyDict
          /\ inputs = EmptyDict
    /\ (pc = "failed" \/ error # "none") =>
          /\ pc = "failed"
          /\ error # "none"
          /\ inputs = EmptyDict
          /\ embedding = << >>
    /\ inputs # EmptyDict =>
          /\ ~PartitionFailed
          /\ DOMAIN inputs.real_store = DOMAIN vocab_mapped_text
          /\ DOMAIN inputs.real_store =
                 PartitionIndexes(Cardinality(DOMAIN inputs.real_store))
          /\ \A p \in DOMAIN inputs.real_store : ShardComplete(p)
          /\ \A id \in DOMAIN text_input :
                /\ id \in DOMAIN inputs.combined_query
                /\ inputs.combined_query[id][1] \in DOMAIN inputs.real_store

\* run has failed with the exception of one partition while another
\* partition had completed its encoding.
C11_Witness ==
    /\ pc = "failed"
    /\ error = "KeyError"
    /\ \E p, q \in DOMAIN w_pc :
         /\ w_pc[p] = "failed"
         /\ w_pc[q] = "done"
         /\ DOMAIN shard_result[q].query_mapping # {}

\* Tokens the resolver is asked for: some are rows of a table, some of none.
ProbeTokens == {"cat", "the", "unk", "zzz", "The", "w3"}

\* C12: the embedding matrix of a completed run on a table of N rows has N + 1
\* rows and row 0 is the zero vector; the resolver id of the token of table
\* row r (0-based) is r + 1 and the embedding row of that id is the token's
\* pretrained vector; a token that is no row of the table gets the id of the
\* table's "unk" row. The rows are compared when run returns; no operation
\* on the index touches the matrix.
C12_EmbeddingAlignedWithResolver ==
    /\ (pc = "done") =>
          /\ Len(embedding) = Len(words_index(pretrained_file)) + 1
          /\ \A j \in DOMAIN embedding[1] : embedding[1][j] = 0
    /\ (pc = "done" /\ last = NoOperation) =>
        LET table == words_index(pretrained_file)
            N == Len(table)
            vectors == words_vectors(pretrained_file)
        IN /\ Len(embedding[1]) = Len(vectors[1])
           /\ \A r \in 0..(N - 1) :
                /\ ~vec_raises(table, table[r + 1])
                /\ vec(table, table[r + 1]) = r + 1
                /\ embedding[vec(table, table[r + 1]) + 1] = vectors[r + 1]
           /\ in_index(table, "unk") =>
                \A t \in ProbeTokens :
                    ~in_index(table, t) =>
                        /\ ~vec_raises(table, t)
                        /\ vec(table, t) = get_loc(table, "unk") + 1
                        /\ embedding[vec(table, t) + 1] =
                               vectors[get_loc(table, "unk") + 1]

\* A completed run on a table with a sentinel row that is not its first row,
\* with a record holding a token that is no row of the table.
C12_Witness ==
    /\ pc = "done"
    /\ pretrained_file = "glove_small"
    /\ Len(embedding) = Len(words_index(pretrained_file)) + 1
    /\ \E id \in DOMAIN tokenized_output :
         \E i \in DOMAIN tokenized_output[id] :
            /\ i <= maxlen
            /\ ~in_index(words_index(pretrained_file),
                         lower(tokenized_output[id][i]))

\* The shards of the merge that hold at least one record.
NonEmptyShards ==
    {p \in DOMAIN vocab_mapped_text :
        DOMAIN vocab_mapped_text[p].query_mapping # {}}

\* C13: map_vocab on a shard with zero records does not fail and returns
\* zero-row arrays and an empty local map (stated for the empty shards of
\* runs that also have records); the merged mapping of all shards is the
\* merged mapping of the non-empty shards alone.
C13_EmptyShardEncodes ==
    /\ \A p \in DOMAIN w_pc :
          (Len(map_parts[p]) = 0 /\ DOMAIN text_input # {}) =>
              /\ w_pc[p] # "failed"
              /\ w_pc[p] = "done" =>
                    /\ shard_result[p].query_mapping = EmptyDict
                    /\ files[p].input_ids = ZeroArray(0, maxlen)
                    /\ files[p].attention_maps = ZeroArray(0, maxlen)
    /\ (pc \in AfterMerge) =>
          \E order \in Orders(NonEmptyShards) :
              combined_query_mapping =
                  ReduceQueryMappings(vocab_mapped_text, order)

\* The locals of the map_vocab worker of partition p.
WorkerState(p) ==
    <<w_pc[p], w_index[p], w_err[p], query_mapping[p], shard_result[p]>>

\* C14: while the map_vocab workers run, every step that changes a file of
\* shard p is a step of the worker of partition p and of no other worker, and
\* a step of one worker changes neither the locals nor the result of another.
C14_ExclusiveShardWriters ==
    [][(pc \in {"mapping", "failed"} /\ pc' \in {"mapping", "failed"}
          /\ DOMAIN w_pc' = DOMAIN w_pc) =>
         /\ \A p \in DOMAIN files :
               files'[p] # files[p] =>
                   /\ p \in DOMAIN w_pc
                   /\ WorkerState(p)' # WorkerState(p)
                   /\ w_pc[p] \in {"pending", "loop"}
         /\ \A p, q \in DOMAIN w_pc :
               (p # q /\ WorkerState(p)' # WorkerState(p)) =>
                   /\ WorkerState(q)' = WorkerState(q)
                   /\ files'[q] = files[q]]_vars

\* Two workers are inside their loops at once, each with a row written.
C14_Witness ==
    /\ pc = "mapping"
    /\ \E p, q \in DOMAIN w_pc :
         /\ p # q
         /\ w_pc[p] = "loop" /\ w_index[p] > 0
         /\ w_pc[q] = "loop" /\ w_index[q] > 0

\* The shard results that exist: returned by a worker or held by run.
ShardResults ==
    LET live == {q \in DOMAIN w_pc : w_pc[q] = "done"} IN
    [p \in live \cup DOMAIN vocab_mapped_text |->
        IF p \in live THEN shard_result[p] ELSE vocab_mapped_text[p]]

\* A handle through which the file cannot be written.
ReadOnly(h) == h.mode = "r"

\* C15: the arrays of a shard are created once and a written row is never
\* written again; the handles the result of a shard with records holds are
\* read-only, and once the encoding of a shard has completed its files do
\* not change any more.
C15_WrittenOnceThenReadOnly ==
    [][/\ \A p \in DOMAIN files :
             /\ files[p].input_ids.exists =>
                   Len(files'[p].input_ids.rows) = Len(files[p].input_ids.rows)
             /\ files[p].attention_maps.exists =>
                   Len(files'[p].attention_maps.rows) =
                       Len(files[p].attention_maps.rows)
       /\ \A p \in DOMAIN w_pc :
             \A k \in 1..w_index[p] :
                 /\ files'[p].input_ids.rows[k] = files[p].input_ids.rows[k]
                 /\ files'[p].attention_maps.rows[k] =
                        files[p].attention_maps.rows[k]
       /\ \A p \in DOMAIN ShardResults : files'[p] = files[p]
       /\ \A p \in DOMAIN ShardResults' :
             DOMAIN ShardResults'[p].query_mapping # {} =>
                 /\ ReadOnly(ShardResults'[p].input_ids)
                 /\ ReadOnly(ShardResults'[p].attention_masks)]_vars

\* The index run would return had the shards come back in the given order.
IndexInOrder(order) ==
    TransformedDictInit(ReduceQueryMappings(vocab_mapped_text, order),
                        vocab_mapped_text)

\* C16: the merged mapping does not depend on the order in which the shard
\* results are folded, nor on how the merges are grouped, and every lookup
\* in the index gives what it would give for any other order.
C16_MergeOrderIndependent ==
    (pc \in AfterMerge) =>
        /\ \A order \in Orders(DOMAIN vocab_mapped_text) :
              /\ combined_query_mapping =
                     ReduceQueryMappings(vocab_mapped_text, order)
              /\ \A id \in DOMAIN combined_query_mapping :
                     getitem_outcome(IndexInOrder(order), files, id) =
                         getitem_outcome(
                             TransformedDictInit(combined_query_mapping,
                                                 vocab_mapped_text),
                             files, id)
        /\ \A p, q, r \in DOMAIN vocab_mapped_text :
              LET a == vocab_mapped_text[p].query_mapping
                  b == vocab_mapped_text[q].query_mapping
                  c == vocab_mapped_text[r].query_mapping
              IN DictUpdate(DictUpdate(a, b), c) =
                     DictUpdate(a, DictUpdate(b, c))

\* C17: the local map of a shard map_vocab has encoded with shard id pos
\* gives the k-th record of the shard's input (k from 0) the pair (pos, k),
\* and row k of both arrays holds the encoding of that record; the rows of
\* a shard's map are exactly 0..len(records)-1, each used by one record.
C17_RowIndexIsPosition ==
    /\ \A pos \in DOMAIN w_pc :
          w_pc[pos] = "done" =>
              LET records == map_parts[pos]
                  local_map == shard_result[pos].query_mapping
              IN /\ DOMAIN local_map = Range(records)
                 /\ \A k \in 0..(Len(records) - 1) :
                       /\ local_map[records[k + 1]] = <<pos, k>>
                       /\ files[pos].input_ids.rows[k + 1] =
                              PolicyIds(tokenized_output[records[k + 1]])
                       /\ files[pos].attention_maps.rows[k + 1] =
                              PolicyMask(tokenized_output[records[k + 1]])
    /\ \A pos \in DOMAIN ShardResults :
          LET local_map == ShardResults[pos].query_mapping
              n == Cardinality(DOMAIN local_map)
          IN /\ {local_map[id][2] : id \in DOMAIN local_map} = 0..(n - 1)
             /\ \A id \in DOMAIN local_map : local_map[id][1] = pos
             /\ \A a, b \in DOMAIN local_map :
                   local_map[a][2] = local_map[b][2] => a = b
             /\ Len(files[pos].input_ids.rows) = n
             /\ Len(files[pos].attention_maps.rows) = n

\* C18: id 0 stands for padding only. In every row of every shard array, at
\* every position, the mask is 1 exactly where the stored id is not 0, and
\* the resolver gives every token of a record an id of at least 1.
C18_MaskIffNonZeroId ==
    /\ \A p \in DOMAIN files :
          \A r \in DOMAIN files[p].input_ids.rows :
              r \in DOMAIN files[p].attention_maps.rows =>
                  \A i \in 1..maxlen :
                      /\ files[p].attention_maps.rows[r][i] \in {0, 1}
                      /\ files[p].attention_maps.rows[r][i] = 1 <=>
                             files[p].input_ids.rows[r][i] # 0
    /\ (pretrained_file # NoFile) =>
          \A id \in DOMAIN tokenized_output :
              \A i \in DOMAIN tokenized_output[id] :
                  LET w == lower(tokenized_output[id][i]) IN
                  ~vec_raises(words_index(pretrained_file), w) =>
                      vec(words_index(pretrained_file), w) >= 1

\* The entry of record id in the index names a shard of the shard store and
\* a row that both arrays of that shard have.
Resolvable(self, id) ==
    LET shard == self.combined_query[id][1]
        row == self.combined_query[id][2]
    IN /\ shard \in DOMAIN self.real_store
       /\ \A k \in DOMAIN self.real_store[shard] :
             LET h == self.real_store[shard][k] IN
             /\ files[h.pos][h.file].exists
             /\ row \in 0..(Len(files[h.pos][h.file].rows) - 1)

\* C19: in the index run builds, the keys it iterates are the record ids of
\* the merged mapping, every one of them has a resolvable entry, no two of
\* them share a (shard, row), and a lookup of any of them does not fail.
C19_EveryEntryResolvable ==
    (inputs # EmptyDict) =>
        /\ (last = NoOperation) =>
              DOMAIN inputs.store = DOMAIN inputs.combined_query
        /\ \A id \in DOMAIN inputs.combined_query :
              /\ Resolvable(inputs, id)
              /\ ~getitem_raises(inputs, id)
              /\ \A other \in DOMAIN inputs.combined_query :
                    inputs.combined_query[other] = inputs.combined_query[id]
                        => other = id
        /\ (last.op \in {"__getitem__", "get"}
               /\ last.key \in DOMAIN inputs.combined_query) =>
              /\ last.raised = "none"
              /\ last.value # None
              /\ DOMAIN last.value = {"input_ids", "attention_masks"}

\* A lookup of the record in the second row of shard 1 has succeeded.
C19_Witness ==
    /\ pc = "done"
    /\ last.op = "__getitem__"
    /\ last.raised = "none"
    /\ inputs.combined_query[last.key] = <<1, 1>>

====
